---- MODULE Spec2Model ----
(***************************************************************************)
(* Model of the Sieve (RFC 5228) scanner and token-stream parser of        *)
(* package rfc5228: lexer.go (the scanner), lexer_test.go (Parser,         *)
(* newParser, Parse, parseCommand) and node.go (the node constructors).    *)
(*                                                                         *)
(* A script is a sequence of code points, each a one-character string.     *)
(* The scripts explored consist of single-byte code points only, so the    *)
(* byte offset of a code point is its index minus one and every width      *)
(* returned by utf8.DecodeRuneInString is 1.                               *)
(***************************************************************************)
EXTENDS Integers, Sequences, FiniteSets, TLC

VARIABLES
    input,    \* the script handed to lex()
    l,        \* the lexer struct
    state,    \* nextItem's local `state`: the state function to run next
    turn,     \* parity of the number of turns nextItem's loop has taken
    pc,       \* position of the caller: newParser / nextItem / switch / Parse / done
    tokens,   \* newParser's local token slice
    p,        \* the Parser struct returned by newParser (or NilParser)
    nerr,     \* the error returned by newParser
    tree,     \* Parse's tree: its local while running, its result when returned
    perr,     \* the error returned by Parse
    calls,    \* number of Parse calls made on the token array so far
    reused,   \* whether the second Parse call runs on the same Parser object
    first     \* what the first Parse call returned

vars == <<input, l, state, turn, pc, tokens, p, nerr, tree, perr, calls, reused, first>>

----------------------------------------------------------------------------
(* Bounds of the exploration *)

\* number of lexeme fragments a script is concatenated from
MaxFrags == 3

\* number of code points of a script written code point by code point
MaxLen == 4

----------------------------------------------------------------------------
(* Code points and their classes *)

EOF == "EOF"

LowerLetters ==
    {"a","b","c","d","e","f","g","h","i","j","k","l","m",
     "n","o","p","q","r","s","t","u","v","w","x","y","z"}

UpperLetters ==
    {"A","B","C","D","E","F","G","H","I","J","K","L","M",
     "N","O","P","Q","R","S","T","U","V","W","X","Y","Z"}

Digits == {"0","1","2","3","4","5","6","7","8","9"}

Punctuation ==
    {" ", "\t", "\r", "\n", "/", "#", "*", "\"", "\\", ".", ",", ":", ";",
     "[", "]", "(", ")", "{", "}", "_", "-", "@"}

\* the code points 0x01..0xFF that scripts are written in
Octets == LowerLetters \cup UpperLetters \cup Digits \cup Punctuation

itemError == "itemError"
itemEOF == "itemEOF"
itemComment == "itemComment"
itemIdentifier == "itemIdentifier"
itemEnd == "itemEnd"
itemString == "itemString"
itemNumeric == "itemNumeric"
itemStringListOpen == "itemStringListOpen"
itemStringListClose == "itemStringListClose"
itemTestListOpen == "itemTestListOpen"
itemTestListClose == "itemTestListClose"
itemBlockOpen == "itemBlockOpen"
itemBlockClose == "itemBlockClose"

textMarker == <<"i","n","p","u","t",":">>

Item(t, pos, val) == [typ |-> t, pos |-> pos, val |-> val]

isWhitespace(r) == r \in {" ", "\t", "\r", "\n", "/", "#"}

isOctetFiltered(r, filters) == r \in Octets /\ r \notin filters

isAlpha(r) == r = "_" \/ r \in LowerLetters \/ r \in UpperLetters

isDigit(r) == r \in Digits

isAlphaNumeric(r) == isAlpha(r) \/ isDigit(r)

----------------------------------------------------------------------------
(* The lexer struct and its cursor methods *)

lex(in) ==
    [input |-> in, start |-> 0, pos |-> 0, atEOF |-> FALSE, width |-> 0,
     item |-> Item(itemError, 0, <<>>)]

\* l.next(): the rune returned
nextR(lx) ==
    IF lx.pos >= Len(lx.input) THEN EOF ELSE lx.input[lx.pos + 1]

\* l.next(): the lexer afterwards
nextL(lx) ==
    IF lx.pos >= Len(lx.input)
    THEN [lx EXCEPT !.width = 0]
    ELSE [lx EXCEPT !.width = 1, !.pos = @ + 1]

\* l.backup(): steps back one rune whenever pos > 0 (atEOF is never set),
\* also after a next() that returned EOF without advancing
backup(lx) ==
    IF ~lx.atEOF /\ lx.pos > 0 THEN [lx EXCEPT !.pos = @ - 1] ELSE lx

ignore(lx) == [lx EXCEPT !.start = lx.pos]

peekR(lx) == nextR(lx)

peekL(lx) == backup(nextL(lx))

isExactPrefix(lx, prefix) ==
    \A k \in 1..Len(prefix) :
        /\ lx.pos + k <= Len(lx.input)
        /\ lx.input[lx.pos + k] = prefix[k]

isNotExactPrefix(lx, prefix) == ~isExactPrefix(lx, prefix)

\* acceptExact: whether the rune was accepted, and the lexer afterwards
acceptExactOk(lx, r) == nextR(lx) = r

acceptExactL(lx, r) ==
    IF nextR(lx) = r THEN nextL(lx) ELSE backup(nextL(lx))

acceptAnyL(lx, runes) ==
    IF nextR(lx) \in runes THEN nextL(lx) ELSE backup(nextL(lx))

\* acceptRunSequence: consumes Len(runes) runes when they are the prefix
acceptRunSequenceOk(lx, runes) == isExactPrefix(lx, runes)

acceptRunSequenceL(lx, runes) ==
    IF isExactPrefix(lx, runes)
    THEN [lx EXCEPT !.width = IF Len(runes) > 0 THEN 1 ELSE @,
                    !.pos = @ + Len(runes)]
    ELSE lx

RECURSIVE acceptRunAny(_, _)
acceptRunAny(lx, valid) ==
    IF nextR(lx) \in valid THEN acceptRunAny(nextL(lx), valid)
    ELSE backup(nextL(lx))

----------------------------------------------------------------------------
(* What a state function returns: the lexer afterwards and the next state. *)
(* "nil" ends nextItem's loop; "panic" is a slice-bounds run-time panic.   *)

R(lx, s) == [l |-> lx, state |-> s]

\* emit as it would be if thisItem did not move start up to pos
emit_KeepsStart(lx, t) ==
    R([lx EXCEPT !.item = Item(t, lx.start,
                               SubSeq(lx.input, lx.start + 1, lx.pos))],
      "nil")

\* thisItem + emitItem: l.input[l.start:l.pos] panics when start > pos
emit(lx, t) ==
    IF lx.start > lx.pos
    THEN R(lx, "panic")
    ELSE R([lx EXCEPT !.item = Item(t, lx.start,
                                    SubSeq(lx.input, lx.start + 1, lx.pos)),
                      !.start = lx.pos],
           "nil")

\* errorf as it would be if it left the input and the cursor alone
errorf_KeepsInput(lx, msg) ==
    R([lx EXCEPT !.item = Item(itemError, lx.start, <<msg>>)], "nil")

errorf(lx, msg) ==
    R([lx EXCEPT !.item = Item(itemError, lx.start, <<msg>>),
                 !.start = 0, !.pos = 0, !.input = <<>>],
      "nil")

----------------------------------------------------------------------------
(* The state functions.  A state function that loops is entered once per   *)
(* loop iteration: an iteration that continues the loop returns the        *)
(* function's own loop state.                                              *)

\* lexStart as it would be if a comma were read but not ignored
lexStart_KeepsComma(lx) ==
    LET r == peekR(lx)
        a == peekL(lx)
    IN  IF r = EOF THEN R(a, "nil")
        ELSE IF isWhitespace(r) THEN R(a, "lexWhitespace")
        ELSE IF isAlpha(r) /\ isNotExactPrefix(a, textMarker)
             THEN R(a, "lexIdentifier")
        ELSE IF r = "\"" THEN R(a, "lexQuotedString")
        ELSE IF r = "t" /\ isExactPrefix(a, textMarker)
             THEN R(a, "lexMultiline")
        ELSE IF r = "[" THEN R(a, "lexStringList")
        ELSE IF r = "," THEN R(nextL(a), "lexStart")
        ELSE IF r = "]" THEN R(a, "lexStringList")
        ELSE IF r = ":" THEN R(a, "lexTag")
        ELSE IF isDigit(r) THEN R(a, "lexNumeric")
        ELSE IF r = "(" THEN R(a, "lexTestList")
        ELSE IF r = ")" THEN R(a, "lexTestList")
        ELSE IF r = ";" THEN emit(nextL(a), itemEnd)
        ELSE IF r = "{" THEN R(a, "lexBlock")
        ELSE IF r = "}" THEN R(a, "lexBlock")
        ELSE errorf(a, "unexpected rune")

lexStart(lx) ==
    LET r == peekR(lx)
        a == peekL(lx)
    IN  IF r = EOF THEN R(a, "nil")
        ELSE IF isWhitespace(r) THEN R(a, "lexWhitespace")
        ELSE IF isAlpha(r) /\ isNotExactPrefix(a, textMarker)
             THEN R(a, "lexIdentifier")
        ELSE IF r = "\"" THEN R(a, "lexQuotedString")
        ELSE IF r = "t" /\ isExactPrefix(a, textMarker)
             THEN R(a, "lexMultiline")
        ELSE IF r = "[" THEN R(a, "lexStringList")
        ELSE IF r = "," THEN R(ignore(nextL(a)), "lexStart")
        ELSE IF r = "]" THEN R(a, "lexStringList")
        ELSE IF r = ":" THEN R(a, "lexTag")
        ELSE IF isDigit(r) THEN R(a, "lexNumeric")
        ELSE IF r = "(" THEN R(a, "lexTestList")
        ELSE IF r = ")" THEN R(a, "lexTestList")
        ELSE IF r = ";" THEN emit(nextL(a), itemEnd)
        ELSE IF r = "{" THEN R(a, "lexBlock")
        ELSE IF r = "}" THEN R(a, "lexBlock")
        ELSE errorf(a, "unexpected rune")

\* lexWhitespace as it would be if a bare line feed were skipped like a space
lexWhitespace_SkipsLF(lx) ==
    LET r == nextR(lx)
        a == nextL(lx)
        b == nextL(a)
    IN  IF r = EOF THEN R(a, "nil")
        ELSE IF r = " " \/ r = "\t" \/ r = "\n" THEN R(ignore(a), "lexWhitespace")
        ELSE IF r = "\r"
             THEN IF nextR(a) # "\n"
                  THEN errorf(b, "unexpected carriage return")
                  ELSE R(ignore(b), "lexWhitespace")
        ELSE IF r = "#" THEN R(a, "lexHashComment")
        ELSE IF r = "/"
             THEN IF nextR(a) # "*"
                  THEN errorf(b, "unexpected bracket comment")
                  ELSE R(b, "lexBracketComment")
        ELSE R(backup(a), "lexStart")

lexWhitespace(lx) ==
    LET r == nextR(lx)
        a == nextL(lx)
        b == nextL(a)
    IN  IF r = EOF THEN R(a, "nil")
        ELSE IF r = " " \/ r = "\t" THEN R(ignore(a), "lexWhitespace")
        ELSE IF r = "\r"
             THEN IF nextR(a) # "\n"
                  THEN errorf(b, "unexpected carriage return")
                  ELSE R(ignore(b), "lexWhitespace")
        ELSE IF r = "\n" THEN errorf(a, "dangling line feed")
        ELSE IF r = "#" THEN R(a, "lexHashComment")
        ELSE IF r = "/"
             THEN IF nextR(a) # "*"
                  THEN errorf(b, "unexpected bracket comment")
                  ELSE R(b, "lexBracketComment")
        ELSE R(backup(a), "lexStart")

\* lexBracketComment as it would be without the backup after a `*` that
\* no `/` follows
lexBracketComment_NoBackup(lx) ==
    LET r == nextR(lx)
        a == nextL(lx)
        b == nextL(a)
    IN  IF r = EOF THEN R(a, "nil")
        ELSE IF isOctetFiltered(r, {"\r", "\n", "*"})
             THEN R(a, "lexBracketComment")
        ELSE IF r = "\r"
             THEN IF nextR(a) # "\n"
                  THEN errorf(b, "unexpected carriage return")
                  ELSE R(b, "lexBracketComment")
        ELSE IF r = "*"
             THEN IF nextR(a) # "/"
                  THEN R(b, "lexBracketComment")
                  ELSE emit(b, itemComment)
        ELSE errorf(a, "unexpected rune")

lexBracketComment(lx) ==
    LET r == nextR(lx)
        a == nextL(lx)
        b == nextL(a)
    IN  IF r = EOF THEN R(a, "nil")
        ELSE IF isOctetFiltered(r, {"\r", "\n", "*"})
             THEN R(a, "lexBracketComment")
        ELSE IF r = "\r"
             THEN IF nextR(a) # "\n"
                  THEN errorf(b, "unexpected carriage return")
                  ELSE R(b, "lexBracketComment")
        ELSE IF r = "*"
             THEN IF nextR(a) # "/"
                  THEN R(backup(b), "lexBracketComment")
                  ELSE emit(b, itemComment)
        ELSE errorf(a, "unexpected rune")

lexHashComment(lx) ==
    LET r == nextR(lx)
        a == nextL(lx)
    IN  IF r = EOF THEN R(a, "nil")
        ELSE IF isOctetFiltered(r, {"\r", "\n"}) THEN R(a, "lexHashComment")
        ELSE IF r = "\r"
             THEN IF isExactPrefix(a, <<"\n">>)
                  THEN emit(backup(a), itemComment)
                  ELSE errorf(a, "unexpected carriage return")
        ELSE errorf(a, "unexpected rune")

\* lexIdentifier up to its loop
lexIdentifier(lx) ==
    IF ~isAlpha(nextR(lx))
    THEN errorf(nextL(lx), "expected alpha rune as first character")
    ELSE R(nextL(lx), "lexIdentifierLoop")

\* one iteration of lexIdentifier's loop
lexIdentifierLoop(lx) ==
    LET r == nextR(lx)
        a == nextL(lx)
    IN  IF r = EOF THEN R(a, "nil")
        ELSE IF isAlphaNumeric(r) THEN R(a, "lexIdentifierLoop")
        ELSE emit(backup(a), itemIdentifier)

\* lexQuotedString up to its loop
lexQuotedString(lx) ==
    IF ~acceptExactOk(lx, "\"")
    THEN errorf(acceptExactL(lx, "\""), "quoted-string opening quote expected")
    ELSE R(acceptExactL(lx, "\""), "lexQuotedStringLoop")

\* the loop of lexQuotedString as it would be if a backslash escaped
\* whatever follows it
lexQuotedStringLoop_EscapesAny(lx) ==
    LET r == nextR(lx)
        a == nextL(lx)
        b == nextL(a)
    IN  IF r = EOF THEN R(a, "nil")
        ELSE IF isOctetFiltered(r, {"\r", "\n", "\"", "\\"})
             THEN R(a, "lexQuotedStringLoop")
        ELSE IF r = "\\" THEN R(b, "lexQuotedStringLoop")
        ELSE IF r = "\r"
             THEN IF ~acceptExactOk(a, "\n")
                  THEN errorf(acceptExactL(a, "\n"), "dangling carriage return")
                  ELSE R(acceptExactL(a, "\n"), "lexQuotedStringLoop")
        ELSE IF r = "\"" THEN emit(a, itemString)
        ELSE errorf(a, "unexpected character")

\* one iteration of lexQuotedString's loop
lexQuotedStringLoop(lx) ==
    LET r == nextR(lx)
        a == nextL(lx)
        b == nextL(a)
    IN  IF r = EOF THEN R(a, "nil")
        ELSE IF isOctetFiltered(r, {"\r", "\n", "\"", "\\"})
             THEN R(a, "lexQuotedStringLoop")
        ELSE IF r = "\\"
             THEN IF nextR(a) = "\"" \/ nextR(a) = "\\"
                  THEN R(b, "lexQuotedStringLoop")
                  ELSE errorf(b, "quoted-other not supported")
        ELSE IF r = "\r"
             THEN IF ~acceptExactOk(a, "\n")
                  THEN errorf(acceptExactL(a, "\n"), "dangling carriage return")
                  ELSE R(acceptExactL(a, "\n"), "lexQuotedStringLoop")
        ELSE IF r = "\"" THEN emit(a, itemString)
        ELSE errorf(a, "unexpected character")

endSequence == <<".", "\r", "\n">>

\* lexMultiline from the CRLF that ends the marker line to the body loop
lexMultilineBodyStart(lx) ==
    IF ~acceptRunSequenceOk(lx, <<"\r", "\n">>)
    THEN errorf(lx, "CRLF expected")
    ELSE LET a == acceptRunSequenceL(lx, <<"\r", "\n">>)
         IN  IF acceptRunSequenceOk(a, endSequence)
             THEN emit(acceptRunSequenceL(a, endSequence), itemString)
             ELSE R(a, "lexMultilineLoop")

\* lexMultiline up to its first loop
lexMultiline(lx) ==
    IF ~acceptRunSequenceOk(lx, textMarker)
    THEN errorf(lx, "missing input marker")
    ELSE LET a == acceptRunAny(acceptRunSequenceL(lx, textMarker), {" ", "\t"})
         IN  IF acceptExactOk(a, "#")
             THEN R(acceptExactL(a, "#"), "lexMultilineHash")
             ELSE lexMultilineBodyStart(acceptExactL(a, "#"))

\* one iteration of the hash-comment loop of lexMultiline: its `break`
\* leaves the switch, not the loop
lexMultilineHash(lx) ==
    LET r == nextR(lx)
        a == nextL(lx)
    IN  IF r = EOF THEN R(a, "nil")
        ELSE IF isOctetFiltered(r, {"\r", "\n"}) THEN R(a, "lexMultilineHash")
        ELSE R(backup(a), "lexMultilineHash")

\* one iteration of the body loop of lexMultiline
lexMultilineLoop(lx) ==
    LET r == nextR(lx)
        a == nextL(lx)
    IN  IF r = EOF THEN R(a, "nil")
        ELSE IF isOctetFiltered(r, {"\r", "\n"}) THEN R(a, "lexMultilineLoop")
        ELSE IF r = "\r"
             THEN IF ~acceptExactOk(a, "\n")
                  THEN errorf(acceptExactL(a, "\n"), "unexpected carriage return")
                  ELSE LET b == acceptExactL(a, "\n")
                       IN  IF acceptRunSequenceOk(b, endSequence)
                           THEN emit(acceptRunSequenceL(b, endSequence), itemString)
                           ELSE R(b, "lexMultilineLoop")
        ELSE errorf(a, "unexpected rune")

lexStringList(lx) ==
    LET r == nextR(lx)
        a == nextL(lx)
    IN  IF r = "[" THEN emit(a, itemStringListOpen)
        ELSE IF r = "]" THEN emit(a, itemStringListClose)
        ELSE errorf(a, "string list open/close expected")

lexTag(lx) ==
    IF ~acceptExactOk(lx, ":")
    THEN errorf(acceptExactL(lx, ":"), "colon expected")
    ELSE R(acceptExactL(lx, ":"), "lexIdentifier")

\* lexNumeric up to its loop
lexNumeric(lx) ==
    IF ~isDigit(peekR(lx))
    THEN errorf(peekL(lx), "digit expected")
    ELSE R(peekL(lx), "lexNumericLoop")

\* one iteration of lexNumeric's loop; leaving the loop runs the rest of
\* the function
lexNumericLoop(lx) ==
    LET r == nextR(lx)
        a == nextL(lx)
    IN  IF r = EOF THEN R(a, "nil")
        ELSE IF isDigit(r) THEN R(a, "lexNumericLoop")
        ELSE emit(acceptAnyL(backup(a), {"K", "M", "G"}), itemNumeric)

lexTestList(lx) ==
    LET r == nextR(lx)
        a == nextL(lx)
    IN  IF r = "(" THEN emit(a, itemTestListOpen)
        ELSE IF r = ")" THEN emit(a, itemTestListClose)
        ELSE errorf(a, "test-list open/close expected")

lexBlock(lx) ==
    LET r == nextR(lx)
        a == nextL(lx)
    IN  IF r = "{" THEN emit(a, itemBlockOpen)
        ELSE IF r = "}" THEN emit(a, itemBlockClose)
        ELSE errorf(a, "block open/close expected")

\* state(l) in nextItem's loop
RunState(s, lx) ==
    CASE s = "lexStart" -> lexStart(lx)
      [] s = "lexWhitespace" -> lexWhitespace(lx)
      [] s = "lexBracketComment" -> lexBracketComment(lx)
      [] s = "lexHashComment" -> lexHashComment(lx)
      [] s = "lexIdentifier" -> lexIdentifier(lx)
      [] s = "lexIdentifierLoop" -> lexIdentifierLoop(lx)
      [] s = "lexQuotedString" -> lexQuotedString(lx)
      [] s = "lexQuotedStringLoop" -> lexQuotedStringLoop(lx)
      [] s = "lexMultiline" -> lexMultiline(lx)
      [] s = "lexMultilineHash" -> lexMultilineHash(lx)
      [] s = "lexMultilineLoop" -> lexMultilineLoop(lx)
      [] s = "lexStringList" -> lexStringList(lx)
      [] s = "lexTag" -> lexTag(lx)
      [] s = "lexNumeric" -> lexNumeric(lx)
      [] s = "lexNumericLoop" -> lexNumericLoop(lx)
      [] s = "lexTestList" -> lexTestList(lx)
      [] s = "lexBlock" -> lexBlock(lx)

----------------------------------------------------------------------------
(* The Parser: a cursor over the token array *)

NoItem == Item("none", 0, <<>>)

\* an error value: the message, the string argument of its format (the
\* scanner's message, for newParser) and the token argument of its format
Err(msg, text, tok) == [msg |-> msg, text |-> text, tok |-> tok]

NoErr == Err("nil", <<>>, NoItem)

NilParser == [nil |-> TRUE, Pos |-> 0, tokens |-> <<>>]

Parser(toks, pos) == [nil |-> FALSE, Pos |-> pos, tokens |-> toks]

NilNode == [type |-> "nil", pos |-> 0]

NilTree == [nil |-> TRUE, Start |-> <<>>]

newTree == [nil |-> FALSE, Start |-> <<>>]

Start_append(t, node) == [t EXCEPT !.Start = Append(@, node)]

newStop(pos) == [type |-> "nodeControlStop", pos |-> pos]

newKeep(pos) == [type |-> "nodeKeep", pos |-> pos]

newDiscard(pos) == [type |-> "nodeDiscard", pos |-> pos]

IF_ == <<"i","f">>
REQUIRE == <<"r","e","q","u","i","r","e">>
STOP == <<"s","t","o","p">>
KEEP == <<"k","e","e","p">>
DISCARD == <<"d","i","s","c","a","r","d">>
REDIRECT == <<"r","e","d","i","r","e","c","t">>

isAtEOF(q) == q.Pos >= Len(q.tokens)

\* Parser.next: the item returned
p_nextItem(q) ==
    IF isAtEOF(q) THEN Item(itemEOF, q.Pos, <<"EOF">>) ELSE q.tokens[q.Pos + 1]

\* Parser.next as it would be if it cleared the token it hands out
p_next_ClearsToken(q) ==
    IF isAtEOF(q) THEN q
    ELSE [q EXCEPT !.Pos = @ + 1, !.tokens[q.Pos + 1] = NoItem]

\* Parser.next: the Parser afterwards
p_next(q) ==
    IF isAtEOF(q) THEN q ELSE [q EXCEPT !.Pos = @ + 1]

\* Parser.backup as it would be without its guard
p_backup_Unguarded(q) == [q EXCEPT !.Pos = @ - 1]

\* Parser.backup: a no-op once the cursor is at the end of the tokens
p_backup(q) ==
    IF ~isAtEOF(q) /\ q.Pos > 0 THEN [q EXCEPT !.Pos = @ - 1] ELSE q

\* Parser.peek: the Parser afterwards (the item is p_nextItem)
p_peek(q) == p_backup(p_next(q))

p_advance(q) == p_next(q)

p_acceptOk(q, typ) == p_nextItem(q).typ = typ

p_accept(q, typ) ==
    IF p_nextItem(q).typ = typ THEN p_next(q) ELSE p_backup(p_next(q))

\* what parseCommand returns, with the Parser afterwards
C(q, node, err) == [p |-> q, node |-> node, err |-> err]

parseRequire(q) == C(q, NilNode, Err("not implemented", <<>>, NoItem))

parseRedirect(q) == C(q, NilNode, Err("not implemented", <<>>, NoItem))

parseIf(q) == C(q, NilNode, Err("not implemented", <<>>, NoItem))

\* the tail of parseCommand for stop / keep / discard
expectEnd(q, node) ==
    IF ~p_acceptOk(q, itemEnd)
    THEN C(p_accept(q, itemEnd), NilNode, Err("expected end ;", <<>>, NoItem))
    ELSE C(p_accept(q, itemEnd), node, NoErr)

parseCommand(q) ==
    LET token == p_nextItem(q)
        a == p_next(q)
    IN  IF token.typ = itemEOF THEN C(a, NilNode, NoErr)
        ELSE IF token.typ = itemIdentifier
             THEN IF token.val = IF_ THEN parseIf(a)
                  ELSE IF token.val = REQUIRE THEN parseRequire(a)
                  ELSE IF token.val = STOP THEN expectEnd(a, newStop(a.Pos))
                  ELSE IF token.val = KEEP THEN expectEnd(a, newKeep(a.Pos))
                  ELSE IF token.val = DISCARD THEN expectEnd(a, newDiscard(a.Pos))
                  ELSE IF token.val = REDIRECT THEN parseRequire(a)
                  ELSE C(a, NilNode, Err("uknown identifier", <<>>, token))
        ELSE C(a, NilNode, Err("unexpected start token", <<>>, token))

\* what one iteration of Parse's loop leaves: the Parser, the tree, the
\* error, and whether Parse has returned
P(q, t, err, ret) == [p |-> q, tree |-> t, err |-> err, returned |-> ret]

\* Parse's error return as it would be if it handed back the tree built
ParseFail_ReturnsTree(q, t, err) == P(q, t, err, TRUE)

\* Parse's `return nil, err`
ParseFail(q, t, err) == P(q, NilTree, err, TRUE)

\* Parse's loop as it would be if its default case skipped the token
ParseIter_SkipsOthers(q, t) ==
    LET token == p_nextItem(q)
        a == p_peek(q)
    IN  IF token.typ = itemEOF THEN P(a, t, NoErr, TRUE)
        ELSE IF token.typ = itemIdentifier
             THEN LET c == parseCommand(a)
                  IN  IF c.err # NoErr
                      THEN ParseFail(c.p, t, c.err)
                      ELSE P(c.p, Start_append(t, c.node), NoErr, FALSE)
        ELSE P(p_advance(a), t, NoErr, FALSE)

ParseIter(q, t) ==
    LET token == p_nextItem(q)
        a == p_peek(q)
    IN  IF token.typ = itemEOF THEN P(a, t, NoErr, TRUE)
        ELSE IF token.typ = itemComment THEN P(p_advance(a), t, NoErr, FALSE)
        ELSE IF token.typ = itemIdentifier
             THEN LET c == parseCommand(a)
                  IN  IF c.err # NoErr
                      THEN ParseFail(c.p, t, c.err)
                      ELSE P(c.p, Start_append(t, c.node), NoErr, FALSE)
        ELSE ParseFail(a, t, Err("unexpected token", <<>>, NoItem))

----------------------------------------------------------------------------
(* The scripts explored: concatenations of at most MaxFrags fragments *)

Fragments ==
    { STOP, KEEP, DISCARD, IF_,
      <<"S","t","o","p">>,
      <<";">>, <<" ">>, <<"\n">>, <<"1">>, <<"\"">>,
      <<"/","*">>,
      <<"/","*","c","*","/">>,
      <<"#","c","\r","\n">> }

\* the concatenation of the first n fragments of f
RECURSIVE Concat(_, _)
Concat(f, n) == IF n = 0 THEN <<>> ELSE Concat(f, n - 1) \o f[n]

RECURSIVE ScriptsOf(_)
ScriptsOf(n) ==
    IF n = 0 THEN {<<>>}
    ELSE LET S == ScriptsOf(n - 1)
         IN  S \cup {s \o f : s \in S, f \in Fragments}

\* number of Parse calls made on one token array
MaxCalls == 2

----------------------------------------------------------------------------
(* The caller: newParser(lex(name, input)), then Parse, then Parse again   *)
(* on the same Parser or on a new Parser over the same token array.        *)

\* the scripts written code point by code point, for the scanner alone
LexAlphabet ==
    {"a", "1", "K", "\"", ";", " ", ",", "/", "*", "#", "\r", "\n"}

InitOn(in) ==
    /\ input = in
    /\ l = lex(in)
    /\ state = "nil"
    /\ turn = 0
    /\ pc = "newParser"
    /\ tokens = <<>>
    /\ p = NilParser
    /\ nerr = NoErr
    /\ tree = NilTree
    /\ perr = NoErr
    /\ calls = 0
    /\ reused = FALSE
    /\ first = [tree |-> NilTree, err |-> NoErr]

Init == \E in \in ScriptsOf(MaxFrags) : InitOn(in)

InitLex ==
    \E n \in 0..MaxLen : \E f \in [1..n -> LexAlphabet] :
        InitOn(SubSeq(f, 1, n))

\* the lexemes the scanner claims are about; a script is at most MaxFrags
\* of them
TokFragments ==
    { <<" ">>, <<"\t">>, <<"\r">>, <<"\n">>, <<"\r", "\n">>,
      <<"a">>, <<";">>, <<"#", "c">>, <<"/", "*", "c", "*", "/">>,
      <<"\"">>, <<"\\", "\"">>, <<"\\", "\\">>, <<"\\">>,
      <<"1">>, <<"0">>, <<"K">>,
      textMarker, <<".", "\r", "\n">> }

InitTok ==
    \E n \in 0..MaxFrags : \E f \in [1..n -> TokFragments] :
        InitOn(Concat(f, n))

\* the lexemes the claims about if, require and redirect are about
IfBranch == <<"i", "f", " ", "t", "r", "u", "e", "{", "s", "t", "o", "p", ";", "}">>

ElsifBranch == <<" ", "e", "l", "s", "i", "f", " ", "t", "r", "u", "e", "{", "k", "e", "e", "p", ";", "}">>

ElseBranch == <<" ", "e", "l", "s", "e", "{", "d", "i", "s", "c", "a", "r", "d", ";", "}">>

StringA == <<"\"", "a", "\"">>

StringListAB == <<"[", "\"", "a", "\"", ",", "\"", "b", "\"", "]">>

CmdFragments ==
    { IfBranch, ElsifBranch, ElseBranch, REQUIRE, REDIRECT,
      StringA, StringListAB, <<" ">>, <<";">>, STOP \o <<";">> }

InitCmd ==
    \E n \in 0..MaxFrags : \E f \in [1..n -> CmdFragments] :
        InitOn(Concat(f, n))

\* the lexemes of every kind of token that can stand at top level
TopFragments ==
    { STOP \o <<";">>, KEEP, <<";">>, <<" ">>, <<"/", "*", "c", "*", "/">>,
      StringA, <<"1">>, <<"[">>, <<"]">>, <<"(">>, <<")">>, <<"{">>, <<"}">> }

InitTop ==
    \E n \in 0..MaxFrags : \E f \in [1..n -> TopFragments] :
        InitOn(Concat(f, n))

\* the lexemes bracket comments are made of
ComFragments ==
    { <<"/", "*">>, <<"*", "/">>, <<"*">>, <<"/">>, <<"c">>, <<";">>,
      <<" ">>, <<"\r", "\n">> }

InitCom ==
    \E n \in 0..MaxFrags : \E f \in [1..n -> ComFragments] :
        InitOn(Concat(f, n))

\* the lexemes multi-line strings are made of
MlFragments ==
    { textMarker, <<" ">>, <<"\t">>, <<"#", "c", "\r", "\n">>,
      <<"\r", "\n">>, <<".", "\r", "\n">>, <<"a", "\r", "\n">> }

InitMl ==
    \E n \in 0..MaxFrags : \E f \in [1..n -> MlFragments] :
        InitOn(Concat(f, n))

\* newParser calls l.nextItem(): the item is preset to EOF at the current
\* position and the state machine starts in lexStart
nextItem ==
    /\ pc = "newParser"
    /\ l' = [l EXCEPT !.item = Item(itemEOF, l.pos, <<"EOF">>)]
    /\ state' = "lexStart"
    /\ turn' = 0
    /\ pc' = "nextItem"
    /\ UNCHANGED <<input, tokens, p, nerr, tree, perr, calls, reused, first>>

\* one turn of nextItem's loop: state = state(l)
LexStep ==
    /\ pc = "nextItem"
    /\ state \notin {"nil", "panic"}
    /\ LET r == RunState(state, l)
       IN  /\ l' = r.l
           /\ state' = r.state
    /\ turn' = 1 - turn
    /\ UNCHANGED <<input, pc, tokens, p, nerr, tree, perr, calls, reused, first>>

\* newParser as it would be without the itemError case of its switch
newParser_KeepsErrorItem ==
    /\ pc = "nextItem"
    /\ state = "nil"
    /\ LET token == l.item
       IN  IF token.typ = itemEOF
           THEN /\ p' = Parser(tokens, 0)
                /\ pc' = "parser"
                /\ UNCHANGED <<tokens, nerr>>
           ELSE /\ tokens' = Append(tokens, token)
                /\ pc' = "newParser"
                /\ UNCHANGED <<p, nerr>>
    /\ UNCHANGED <<input, l, state, turn, tree, perr, calls, reused, first>>

\* nextItem has returned l.item: the switch of newParser's loop
newParser ==
    /\ pc = "nextItem"
    /\ state = "nil"
    /\ LET token == l.item
       IN  IF token.typ = itemError
           THEN /\ nerr' = Err("syntax error", token.val, NoItem)
                /\ pc' = "failed"
                /\ UNCHANGED <<tokens, p>>
           ELSE IF token.typ = itemEOF
           THEN /\ p' = Parser(tokens, 0)
                /\ pc' = "parser"
                /\ UNCHANGED <<tokens, nerr>>
           ELSE /\ tokens' = Append(tokens, token)
                /\ pc' = "newParser"
                /\ UNCHANGED <<p, nerr>>
    /\ UNCHANGED <<input, l, state, turn, tree, perr, calls, reused, first>>

\* nextItem's loop from state s; a turn that changes nothing repeats forever
RECURSIVE RunStates(_, _)
RunStates(s, lx) ==
    IF s \in {"nil", "panic"} THEN R(lx, s)
    ELSE LET r == RunState(s, lx)
         IN  IF r = R(lx, s) THEN R(lx, "diverges")
             ELSE RunStates(r.state, r.l)

\* a caller that goes on calling l.nextItem() after it has been handed an
\* error item: one whole call
nextItemAfterError ==
    /\ pc \in {"failed", "afterError"}
    /\ LET r == RunStates("lexStart",
                          [l EXCEPT !.item = Item(itemEOF, l.pos, <<"EOF">>)])
       IN  /\ l' = r.l
           /\ state' = r.state
    /\ pc' = "afterError"
    /\ UNCHANGED <<input, turn, tokens, p, nerr, tree, perr, calls, reused, first>>

\* a caller that goes on calling l.nextItem() after it has been handed an
\* EOF item (newParser itself stops at the first one): one whole call, made
\* once the call before it has returned
nextItemAfterEOF ==
    /\ pc \in {"parser", "afterEOF"}
    /\ state = "nil"
    /\ LET r == RunStates("lexStart",
                          [l EXCEPT !.item = Item(itemEOF, l.pos, <<"EOF">>)])
       IN  /\ l' = r.l
           /\ state' = r.state
    /\ pc' = "afterEOF"
    /\ UNCHANGED <<input, turn, tokens, p, nerr, tree, perr, calls, reused, first>>

\* a caller of the Parser's cursor methods, in any order, on the Parser
\* newParser returned; pc names the method called last
CursorCalls == {"next", "peek", "backup", "advance", "accept"}

ItemTypes ==
    { itemError, itemEOF, itemComment, itemIdentifier, itemEnd, itemString,
      itemNumeric,
      itemStringListOpen, itemStringListClose, itemTestListOpen,
      itemTestListClose, itemBlockOpen, itemBlockClose }

callNext ==
    /\ pc \in {"parser"} \cup CursorCalls
    /\ p' = p_next(p)
    /\ pc' = "next"
    /\ UNCHANGED <<input, l, state, turn, tokens, nerr, tree, perr, calls, reused, first>>

callPeek ==
    /\ pc \in {"parser"} \cup CursorCalls
    /\ p' = p_peek(p)
    /\ pc' = "peek"
    /\ UNCHANGED <<input, l, state, turn, tokens, nerr, tree, perr, calls, reused, first>>

callBackup ==
    /\ pc \in {"parser"} \cup CursorCalls
    /\ p' = p_backup(p)
    /\ pc' = "backup"
    /\ UNCHANGED <<input, l, state, turn, tokens, nerr, tree, perr, calls, reused, first>>

callAdvance ==
    /\ pc \in {"parser"} \cup CursorCalls
    /\ p' = p_advance(p)
    /\ pc' = "advance"
    /\ UNCHANGED <<input, l, state, turn, tokens, nerr, tree, perr, calls, reused, first>>

callAccept ==
    /\ pc \in {"parser"} \cup CursorCalls
    /\ \E typ \in ItemTypes : p' = p_accept(p, typ)
    /\ pc' = "accept"
    /\ UNCHANGED <<input, l, state, turn, tokens, nerr, tree, perr, calls, reused, first>>

\* the caller calls Parse: the first call on the Parser newParser returned,
\* a later call on the same Parser or on a new Parser over the same tokens
Parse ==
    /\ \/ pc = "parser" /\ calls = 0
       \/ pc = "returned" /\ calls < MaxCalls
    /\ \E again \in BOOLEAN :
        /\ calls = 0 => ~again
        /\ reused' = again
        /\ p' = IF again \/ calls = 0 THEN p ELSE Parser(p.tokens, 0)
    /\ first' = IF calls = 1 THEN [tree |-> tree, err |-> perr] ELSE first
    /\ tree' = newTree
    /\ perr' = NoErr
    /\ calls' = calls + 1
    /\ pc' = "Parse"
    /\ UNCHANGED <<input, l, state, turn, tokens, nerr>>

\* one iteration of Parse's loop
ParseStep ==
    /\ pc = "Parse"
    /\ LET r == ParseIter(p, tree)
       IN  /\ p' = r.p
           /\ tree' = r.tree
           /\ perr' = r.err
           /\ pc' = IF r.returned THEN "returned" ELSE "Parse"
    /\ UNCHANGED <<input, l, state, turn, tokens, nerr, calls, reused, first>>

Next == nextItem \/ LexStep \/ newParser \/ Parse \/ ParseStep

Spec == Init /\ [][Next]_vars

\* the scanner driven by newParser, on the scripts written code point by
\* code point
NextLex == nextItem \/ LexStep \/ newParser

SpecLex == InitLex /\ [][NextLex]_vars

\* the scanner driven by newParser, on the scripts made of lexemes
SpecTok == InitTok /\ [][NextLex]_vars

\* newParser + Parse on the scripts made of commands with arguments
SpecCmd == InitCmd /\ [][Next]_vars

\* newParser + Parse on the scripts made of tokens of every kind
SpecTop == InitTop /\ [][Next]_vars

\* the scanner driven by newParser, on the scripts made of comment parts
SpecCom == InitCom /\ [][NextLex]_vars

\* the scanner driven by newParser, on the scripts made of the parts of
\* multi-line strings
SpecMl == InitMl /\ [][NextLex]_vars

\* the scanner driven by a caller that calls nextItem again after an error
NextAfter == nextItem \/ LexStep \/ newParser \/ nextItemAfterError

SpecAfter == InitTok /\ [][NextAfter]_vars

\* the scanner driven by a caller that calls nextItem again after an EOF item
NextEOF == nextItem \/ LexStep \/ newParser \/ nextItemAfterEOF

SpecEOF == InitTok /\ [][NextEOF]_vars

\* newParser, then the Parser's cursor methods called in any order
NextCursor ==
    \/ nextItem \/ LexStep \/ newParser
    \/ callNext \/ callPeek \/ callBackup \/ callAdvance \/ callAccept

SpecCursor == Init /\ [][NextCursor]_vars

\* the program is sequential: whatever step it can take next, it takes
FairSpec == Spec /\ WF_vars(Next)

----------------------------------------------------------------------------
(* The scanner and the parser as functions of the script, computed with    *)
(* the same state functions and loop bodies as the actions above.          *)

\* newParser's loop: the Parser, the error and the tokens scanned
RECURSIVE RunNewParser(_, _)
RunNewParser(lx, toks) ==
    LET r == RunStates("lexStart",
                       [lx EXCEPT !.item = Item(itemEOF, lx.pos, <<"EOF">>)])
        token == r.l.item
    IN  IF r.state # "nil"
        THEN [end |-> r.state, p |-> NilParser, err |-> NoErr, tokens |-> toks]
        ELSE IF token.typ = itemError
        THEN [end |-> "failed", p |-> NilParser,
              err |-> Err("syntax error", token.val, NoItem), tokens |-> toks]
        ELSE IF token.typ = itemEOF
        THEN [end |-> "parser", p |-> Parser(toks, 0), err |-> NoErr,
              tokens |-> toks]
        ELSE RunNewParser(r.l, Append(toks, token))

\* the items nextItem returns, call after call, up to and including the
\* first EOF or error item (the loop of TestLexer and of newParser); a
\* call that does not return ends the sequence with its state
RECURSIVE RunItems(_, _)
RunItems(lx, items) ==
    LET r == RunStates("lexStart",
                       [lx EXCEPT !.item = Item(itemEOF, lx.pos, <<"EOF">>)])
    IN  IF r.state # "nil" THEN Append(items, r.state)
        ELSE IF r.l.item.typ \in {itemError, itemEOF}
        THEN Append(items, r.l.item)
        ELSE RunItems(r.l, Append(items, r.l.item))

\* Parse's loop
RECURSIVE RunParse(_, _)
RunParse(q, t) ==
    LET r == ParseIter(q, t)
    IN  IF r.returned THEN r ELSE RunParse(r.p, r.tree)

\* the kinds of the nodes of a tree, in order (positions left out)
Shape(t) == [i \in 1..Len(t.Start) |-> t.Start[i].type]

\* the outcome of newParser + Parse on a script: whether it ended, whether
\* it returned an error, and the shape of the tree it returned
Outcome(in) ==
    LET n == RunNewParser(lex(in), <<>>)
    IN  IF n.end = "failed" THEN [end |-> "returned", error |-> TRUE, shape |-> <<>>]
        ELSE IF n.end # "parser" THEN [end |-> n.end, error |-> FALSE, shape |-> <<>>]
        ELSE LET r == RunParse(n.p, newTree)
             IN  [end |-> "returned", error |-> r.err # NoErr,
                  shape |-> Shape(r.tree)]

\* the outcome of the run in progress, once newParser + Parse have returned
FirstReturned == pc = "failed" \/ (pc = "returned" /\ calls = 1)

OutcomeNow ==
    [end |-> "returned", error |-> (pc = "failed" \/ perr # NoErr),
     shape |-> Shape(tree)]

----------------------------------------------------------------------------
(* The grammar of the claims, on the characters of the script *)

CommandWords == {STOP, KEEP, DISCARD}

Keywords == {IF_, REQUIRE, STOP, KEEP, DISCARD, REDIRECT}

Drop(s, n) == SubSeq(s, n + 1, Len(s))

Range(s) == {s[i] : i \in 1..Len(s)}

Front(s) == SubSeq(s, 1, Len(s) - 1)

StartsWith(s, w) == Len(s) >= Len(w) /\ SubSeq(s, 1, Len(w)) = w

\* s is zero or more complete commands `stop;` `keep;` `discard;`, with
\* spaces allowed between the tokens
RECURSIVE Complete(_)
RECURSIVE AwaitEnd(_)
Complete(s) ==
    \/ s = <<>>
    \/ s[1] = " " /\ Complete(Tail(s))
    \/ \E w \in CommandWords : StartsWith(s, w) /\ AwaitEnd(Drop(s, Len(w)))

AwaitEnd(s) ==
    /\ s # <<>>
    /\ \/ s[1] = " " /\ AwaitEnd(Tail(s))
       \/ s[1] = ";" /\ Complete(Tail(s))

RECURSIVE SkipSpaces(_)
SkipSpaces(s) ==
    IF s # <<>> /\ s[1] = " " THEN SkipSpaces(Tail(s)) ELSE s

\* what follows a command word is not its `;`: the script ends, or after
\* optional spaces another token starts (a command word cannot run on
\* into a letter or digit)
NoEndFollows(s) ==
    /\ s = <<>> \/ ~isAlphaNumeric(s[1])
    /\ LET t == SkipSpaces(s)
       IN  t = <<>> \/ isAlphaNumeric(t[1]) \/ t[1] \in {"\"", "{", "}", "[", "]", "(", ")"}

\* the script has, at top level, a command stop / keep / discard that is
\* not immediately followed by `;`
MissingEnd(s) ==
    \E n \in 0..Len(s) :
        /\ Complete(SubSeq(s, 1, n))
        /\ \E w \in CommandWords :
            /\ StartsWith(Drop(s, n), w)
            /\ NoEndFollows(Drop(s, n + Len(w)))

\* s[a+1..b] is an identifier lexeme: letters and digits after a first
\* letter, not run on from or into a letter or digit
IdentifierAt(s, a, b) ==
    /\ a < b
    /\ isAlpha(s[a + 1])
    /\ \A k \in (a + 1)..b : isAlphaNumeric(s[k])
    /\ a = 0 \/ ~isAlphaNumeric(s[a])
    /\ b = Len(s) \/ ~isAlphaNumeric(s[b + 1])

----------------------------------------------------------------------------
(* Claims about the scanner and the parser *)

\* the scan has ended: nextItem returned an EOF or an error item to newParser
ScanEnded == pc \in {"failed", "parser", "Parse", "returned"}

\* C1: for every input, every nextItem call returns after finitely many
\* state-function steps and the repeated calls made by newParser reach an
\* EOF or error item: the scan of every script eventually ends.
C1_ScanTerminates == <>ScanEnded

\* C2: a script in which a stop, keep or discard command is not immediately
\* followed by `;` is rejected by Parse with the "expected end" error and no
\* tree, also when the command is the last token or the last characters.
C2_MissingEndRejected ==
    (pc = "returned" /\ calls = 1 /\ MissingEnd(input))
        => (perr.msg = "expected end ;" /\ tree.nil)

\* C3: a script whose top-level command begins with an identifier that is
\* none of if, require, stop, keep, discard, redirect is rejected by Parse
\* with the "unknown identifier" error naming that identifier token and its
\* byte position, and no tree, whether or not a token follows.
C3_UnknownIdentifierRejected ==
    (pc = "returned" /\ calls = 1)
        => \A a \in 0..Len(input) : \A b \in (a + 1)..Len(input) :
            ( /\ Complete(SubSeq(input, 1, a))
              /\ IdentifierAt(input, a, b)
              /\ SubSeq(input, a + 1, b) \notin Keywords )
            => /\ perr.msg = "uknown identifier"
               /\ perr.tok = Item(itemIdentifier, a, SubSeq(input, a + 1, b))
               /\ tree.nil

\* the script without the characters of token tk
Without(s, tk) ==
    SubSeq(s, 1, tk.pos) \o Drop(s, tk.pos + Len(tk.val))

SameOutcome(x, y) ==
    /\ x.end = y.end
    /\ x.error = y.error
    /\ ~x.error => x.shape = y.shape

\* C4: comments are transparent: newParser + Parse give the same outcome
\* (the same tree up to positions, or an error in both cases) for the
\* script and for the script with any one of its comments removed, wherever
\* the comment stands.  Stated for the scripts that end in `;`, in which no
\* lexeme ends at the end of the input.
C4_CommentsTransparent ==
    (FirstReturned /\ input # <<>> /\ input[Len(input)] = ";")
        => \A k \in 1..Len(tokens) :
            tokens[k].typ = itemComment
                => SameOutcome(OutcomeNow, Outcome(Without(input, tokens[k])))

\* end of input is read inside a quoted string or a bracket comment
EOFInside ==
    /\ pc = "nextItem"
    /\ state \in {"lexQuotedStringLoop", "lexBracketComment"}
    /\ nextR(l) = EOF

\* C5: when end of input is reached inside a quoted string or a bracket
\* comment, nextItem returns an error item (not an EOF item).
C5_UnterminatedIsError ==
    [][EOFInside => (state' = "nil" /\ l'.item.typ = itemError)]_vars

\* the characters of the script that lie in no token
Uncovered ==
    {i \in 1..Len(input) :
        \A k \in 1..Len(tokens) :
            i <= tokens[k].pos \/ i > tokens[k].pos + Len(tokens[k].val)}

\* every string and comment opened in s is closed before s ends; mode is
\* "code", "string", "bracket" or "hash"
RECURSIVE Closed(_, _)
Closed(s, mode) ==
    IF s = <<>> THEN mode = "code"
    ELSE IF mode = "code"
         THEN IF s[1] = "\"" THEN Closed(Tail(s), "string")
              ELSE IF s[1] = "#" THEN Closed(Tail(s), "hash")
              ELSE IF StartsWith(s, <<"/", "*">>) THEN Closed(Drop(s, 2), "bracket")
              ELSE Closed(Tail(s), "code")
    ELSE IF mode = "string"
         THEN IF s[1] = "\\" /\ Len(s) >= 2 THEN Closed(Drop(s, 2), "string")
              ELSE IF s[1] = "\"" THEN Closed(Tail(s), "code")
              ELSE Closed(Tail(s), "string")
    ELSE IF mode = "bracket"
         THEN IF StartsWith(s, <<"*", "/">>) THEN Closed(Drop(s, 2), "code")
              ELSE Closed(Tail(s), "bracket")
    ELSE IF StartsWith(s, <<"\r", "\n">>) THEN Closed(Drop(s, 2), "code")
         ELSE Closed(Tail(s), "hash")

\* C6: when the scan ends without an error item, the tokens cover the
\* script except for discarded whitespace and commas: every identifier,
\* number, string and structural character is in a token, also a lexeme
\* that ends exactly at the end of the input.  Stated for the scripts in
\* which every string and comment is closed.
C6_TokensPartitionInput ==
    (pc = "parser" /\ Closed(input, "code"))
        => \A i \in Uncovered : input[i] \in {" ", "\t", "\r", "\n", ","}

\* the end of token tk in the script
End(tk) == tk.pos + Len(tk.val)

\* nextItem is returning l.item to newParser
Returning == pc = "nextItem" /\ state = "nil"

\* C7: in the items returned up to the first EOF or error item, every token
\* text is non-empty, every token starts at or after the end of the token
\* before it (so positions increase strictly), and an error item's position
\* is not before the end of the last token.
C7_PositionsIncrease ==
    Returning
        => LET it == l.item
               n == Len(tokens)
           IN  /\ it.typ \notin {itemEOF, itemError} => Len(it.val) > 0
               /\ (it.typ # itemEOF /\ n > 0)
                    => /\ it.pos >= End(tokens[n])
                       /\ it.pos > tokens[n].pos
               /\ \A k \in 1..n : Len(tokens[k].val) > 0
               /\ \A k \in 2..n : /\ tokens[k].pos >= End(tokens[k - 1])
                                  /\ tokens[k].pos > tokens[k - 1].pos

\* two tokens lie apart in the script and an error item is being returned
\* after them
C7_Witness ==
    /\ Returning
    /\ Len(tokens) = 2
    /\ tokens[2].pos > End(tokens[1])
    /\ l.item.typ = itemError
    /\ l.item.pos >= End(tokens[2])

\* C8: newParser + Parse return either a tree and no error or an error and
\* no tree: while Parse runs no error has occurred, the error return hands
\* back no tree (none of the nodes built before it), and newParser returns
\* a Parser exactly when it returns no error.
C8_TreeOrError ==
    /\ pc = "Parse" => (perr = NoErr /\ ~tree.nil)
    /\ pc = "returned"
        => \/ perr = NoErr /\ ~tree.nil
           \/ perr # NoErr /\ tree = NilTree
    /\ pc = "failed" => (nerr # NoErr /\ p = NilParser /\ tree = NilTree)
    /\ pc = "parser" => (nerr = NoErr /\ ~p.nil)

\* Parse returned an error after it had parsed a command and built its
\* node
C8_Witness ==
    /\ pc = "returned"
    /\ calls = 1
    /\ Len(tokens) >= 3
    /\ tokens[1].val \in CommandWords
    /\ tokens[2].typ = itemEnd
    /\ perr = Err("unexpected token", <<>>, NoItem)
    /\ tree = NilTree

\* C9: when the scanner returns an error item, newParser returns the
\* scanner's message wrapped with the `syntax error` tag and no Parser, and
\* the tokens scanned before are never parsed; when it returns EOF first,
\* newParser returns a Parser over the tokens scanned so far, none of them
\* an error item.
C9_ScanErrorWrapped ==
    /\ pc = "failed"
        => /\ l.item.typ = itemError
           /\ nerr = Err("syntax error", l.item.val, NoItem)
           /\ p = NilParser
           /\ calls = 0
    /\ pc \in {"parser", "Parse", "returned"}
        => /\ l.item.typ = itemEOF
           /\ nerr = NoErr
           /\ p.tokens = tokens
           /\ \A k \in 1..Len(tokens) : tokens[k].typ \notin {itemError, itemEOF}
    /\ pc = "parser" => p = Parser(tokens, 0)

\* newParser failed after tokens had been scanned
C9_Witness ==
    /\ pc = "failed"
    /\ Len(tokens) >= 2
    /\ nerr.text = <<"dangling line feed">>

\* C10 as claimed: every Parse call over the same token array, also a
\* second call on the same Parser object, returns what the first call
\* returned, and leaves the token array unchanged.  Stated for the
\* well-formed scripts: the first call returned a tree of command nodes.
C10_ParseRepeatable ==
    ( /\ pc = "returned"
      /\ calls >= 2
      /\ first.err = NoErr
      /\ \A k \in 1..Len(first.tree.Start) : first.tree.Start[k] # NilNode )
        => /\ [tree |-> tree, err |-> perr] = first
           /\ p.tokens = tokens

\* C10 as amended: every Parse call on a new Parser (cursor 0) over the
\* same token array returns what the first call returned, and Parse leaves
\* the token array unchanged; a call on the same Parser object starts at
\* the cursor the call before left, and after a call that returned a tree
\* it returns an empty tree.
C10_ParseOfTokensAndCursor ==
    (pc = "returned" /\ calls >= 2)
        => /\ p.tokens = tokens
           /\ ~reused => [tree |-> tree, err |-> perr] = first
           /\ (reused /\ first.err = NoErr) => (tree = newTree /\ perr = NoErr)

\* a second Parse call on a new Parser returned a tree with a node
C10_Witness ==
    /\ pc = "returned"
    /\ calls = 2
    /\ ~reused
    /\ perr = NoErr
    /\ Len(tree.Start) >= 1
    /\ tree.Start[1] # NilNode

----------------------------------------------------------------------------
(* Claims about the text of the tokens *)

WhitespaceChars == {" ", "\t", "\r", "\n"}

\* s[i] is a line feed that no carriage return precedes
LoneLF(s, i) == s[i] = "\n" /\ (i = 1 \/ s[i - 1] # "\r")

\* s[i] is a carriage return that no line feed follows
LoneCR(s, i) == s[i] = "\r" /\ (i = Len(s) \/ s[i + 1] # "\n")

\* s is made of spaces, tabs and CRLF pairs only
OnlyBlank(s) ==
    \A i \in 1..Len(s) :
        /\ s[i] \in WhitespaceChars
        /\ ~LoneLF(s, i)
        /\ ~LoneCR(s, i)

\* C11: a CR that no LF follows and an LF that no CR precedes make the scan
\* end in an error item, so a scan that ends without error has met neither
\* (a script with bare-LF line ends is rejected as a whole); the "dangling
\* line feed" error item points at such an LF; space, tab and CRLF are
\* skipped without a token: no identifier, number or structural token holds
\* one, and a script made of them alone scans to no token.
C11_LineEndings ==
    /\ pc = "parser"
        => /\ \A i \in 1..Len(input) : ~LoneLF(input, i) /\ ~LoneCR(input, i)
           /\ OnlyBlank(input) => tokens = <<>>
    /\ (Returning /\ l.item = Item(itemError, l.item.pos, <<"dangling line feed">>))
        => LoneLF(input, l.item.pos + 1)
    /\ \A k \in 1..Len(tokens) :
        tokens[k].typ \notin {itemString, itemComment}
            => \A j \in 1..Len(tokens[k].val) :
                tokens[k].val[j] \notin WhitespaceChars

\* a CRLF between two tokens was skipped and the scan ended without error
C11_Witness ==
    /\ pc = "parser"
    /\ Len(tokens) = 2
    /\ SubSeq(input, End(tokens[1]) + 1, tokens[2].pos) = <<"\r", "\n">>

\* the content of the quoted string whose opening quote has just been read,
\* up to its closing quote, each escape replaced by the character escaped
RECURSIVE Unescaped(_)
Unescaped(s) ==
    IF s = <<>> \/ s[1] = "\"" THEN <<>>
    ELSE IF s[1] = "\\" /\ Len(s) >= 2 THEN <<s[2]>> \o Unescaped(Drop(s, 2))
    ELSE <<s[1]>> \o Unescaped(Tail(s))

\* C12: the text of a quoted-string token is the content of the string
\* without the surrounding quotes and with each escape replaced by the
\* character it escapes.  Stated for the string tokens that hold an escape.
C12_StringValueUnescaped ==
    \A k \in 1..Len(tokens) :
        (tokens[k].typ = itemString /\ "\\" \in Range(tokens[k].val))
            => tokens[k].val = Unescaped(Drop(input, tokens[k].pos + 1))

\* the body of the hash comment whose `#` has just been read: up to the CR
\* of the CRLF that ends it
RECURSIVE HashBody(_)
HashBody(s) ==
    IF s = <<>> \/ s[1] = "\r" THEN <<>> ELSE <<s[1]>> \o HashBody(Tail(s))

\* the body of the bracket comment whose `/*` has just been read: up to
\* the closing `*/`
RECURSIVE BracketBody(_)
BracketBody(s) ==
    IF s = <<>> \/ StartsWith(s, <<"*", "/">>) THEN <<>>
    ELSE <<s[1]>> \o BracketBody(Tail(s))

\* C13: the text of a comment token is the comment body without its
\* delimiters: without the leading `#` (and without the CRLF that ends it)
\* for a hash comment, without `/*` and `*/` for a bracket comment.
C13_CommentValueIsBody ==
    \A k \in 1..Len(tokens) :
        tokens[k].typ = itemComment
            => tokens[k].val =
                   IF input[tokens[k].pos + 1] = "#"
                   THEN HashBody(Drop(input, tokens[k].pos + 1))
                   ELSE BracketBody(Drop(input, tokens[k].pos + 2))

CRLF == <<"\r", "\n">>

EndsWith(s, w) == Len(s) >= Len(w) /\ SubSeq(s, Len(s) - Len(w) + 1, Len(s)) = w

\* what stands between the marker line and the terminator line
MultilineBody(s) ==
    SubSeq(s, Len(textMarker) + Len(CRLF) + 1, Len(s) - Len(endSequence))

\* s is the marker, CRLF, zero or more body lines each ended by CRLF (none
\* of them the terminator line) and the terminator line `.` CRLF
IsMultiline(s) ==
    /\ Len(s) >= Len(textMarker) + Len(CRLF) + Len(endSequence)
    /\ StartsWith(s, textMarker \o CRLF)
    /\ EndsWith(s, endSequence)
    /\ LET b == MultilineBody(s)
       IN  /\ b = <<>> \/ EndsWith(b, CRLF)
           /\ \A i \in 1..Len(b) : ~LoneLF(b, i) /\ ~LoneCR(b, i)
           /\ ~StartsWith(b, endSequence)
           /\ \A i \in 1..Len(b) : ~StartsWith(Drop(b, i), <<"\n">> \o endSequence)

\* C14: an input made of the multi-line marker, CRLF, zero or more body
\* lines and the terminator line `.` CRLF is scanned as exactly one string
\* token whose value is the body (the empty string for an empty body).
C14_MultilineIsOneString ==
    (pc \in {"failed", "parser"} /\ IsMultiline(input))
        => /\ pc = "parser"
           /\ tokens = <<Item(itemString, 0, MultilineBody(input))>>

Quantifiers == {"K", "M", "G"}

\* s is one or more decimal digits followed by at most one of K, M, G
IsNumber(s) ==
    /\ s # <<>>
    /\ isDigit(s[1])
    /\ \A i \in 1..(Len(s) - 1) : isDigit(s[i])
    /\ isDigit(s[Len(s)]) \/ (Len(s) >= 2 /\ s[Len(s)] \in Quantifiers)

\* C15: a run of decimal digits followed by at most one suffix out of K, M,
\* G is emitted as exactly one numeric token whose text is the digits plus
\* the suffix: stated for the scripts that are one number, and one number
\* followed by `;`.
C15_NumberIsOneToken ==
    /\ (pc \in {"failed", "parser"} /\ IsNumber(input))
        => /\ pc = "parser"
           /\ tokens = <<Item(itemNumeric, 0, input)>>
    /\ (pc \in {"failed", "parser"} /\ input # <<>> /\ IsNumber(Front(input))
            /\ input[Len(input)] = ";")
        => /\ pc = "parser"
           /\ tokens = <<Item(itemNumeric, 0, Front(input)),
                         Item(itemEnd, Len(input) - 1, <<";">>)>>

----------------------------------------------------------------------------
(* Claims about the commands that take arguments *)

\* s repeated n times
RECURSIVE Repeat(_, _)
Repeat(s, n) == IF n = 0 THEN <<>> ELSE s \o Repeat(s, n - 1)

\* the first call of Parse has returned
ParseReturned == pc = "returned" /\ calls = 1

\* C16: parsing a well-formed if / elsif / else chain succeeds and yields
\* one If node whose ElseIfs list holds the elsif branches in order and
\* whose Else branch is set exactly when an else is present.
C16_IfChainParsed ==
    ParseReturned
        => \A n \in 0..MaxFrags : \A e \in BOOLEAN :
            input = IfBranch \o Repeat(ElsifBranch, n)
                             \o (IF e THEN ElseBranch ELSE <<>>)
                => /\ perr = NoErr
                   /\ ~tree.nil
                   /\ Len(tree.Start) = 1
                   /\ tree.Start[1].type = "NodeControlIf"
                   /\ Len(tree.Start[1].ElseIfs) = n
                   /\ tree.Start[1].Else # NilNode <=> e

\* C17: parsing require, one string or one string list and `;` succeeds
\* and yields a Require node whose Capabilities are the listed strings in
\* source order; without the `;` it is an error.
C17_RequireParsed ==
    ParseReturned
        => \A sp \in {<<>>, <<" ">>} :
            /\ input \in {REQUIRE \o sp \o StringA \o <<";">>,
                          REQUIRE \o sp \o StringListAB \o <<";">>}
                => /\ perr = NoErr
                   /\ ~tree.nil
                   /\ Len(tree.Start) = 1
                   /\ tree.Start[1].type = "NodeControlRequire"
                   /\ tree.Start[1].Capabilities =
                          IF input = REQUIRE \o sp \o StringA \o <<";">>
                          THEN << <<"a">> >>
                          ELSE << <<"a">>, <<"b">> >>
            /\ input \in {REQUIRE \o sp \o StringA, REQUIRE \o sp \o StringListAB}
                => (perr # NoErr /\ tree.nil)

\* C18: parsing redirect, exactly one string and `;` succeeds and yields a
\* Redirect node whose Address is that string.
C18_RedirectParsed ==
    ParseReturned
        => \A sp \in {<<>>, <<" ">>} :
            input = REDIRECT \o sp \o StringA \o <<";">>
                => /\ perr = NoErr
                   /\ ~tree.nil
                   /\ Len(tree.Start) = 1
                   /\ tree.Start[1].type = "nodeRedirect"
                   /\ tree.Start[1].Address = <<"a">>

----------------------------------------------------------------------------
(* Claims about positions *)

\* C19: every error returned by newParser or Parse identifies the byte
\* position of the offending token: a lexical error keeps the position of
\* the scanner's error item, and a syntax error carries the position and
\* text of the token that caused it (a token of the script, or the EOF
\* item when the script ended too early).
C19_ErrorsCarryPosition ==
    /\ pc = "failed" => nerr.tok = l.item
    /\ (ParseReturned /\ perr # NoErr)
        => /\ perr.tok # NoItem
           /\ perr.tok \in Range(tokens) \/ perr.tok.typ = itemEOF

IsIdentifier(tk) == tk.typ = itemIdentifier

\* C20: the Position stored in every node that Parse creates (Stop, Keep,
\* Discard) is the byte offset in the script of the command identifier
\* token that produced the node: the i-th node comes from the i-th
\* identifier token.
C20_NodePositionIsByteOffset ==
    (ParseReturned /\ perr = NoErr)
        => \A i \in 1..Len(tree.Start) :
            tree.Start[i] # NilNode
                => tree.Start[i].pos = SelectSeq(tokens, IsIdentifier)[i].pos

----------------------------------------------------------------------------
(* Claims about Parse's loop and the Parser's cursor *)

CommandErrors == {"expected end ;", "uknown identifier", "not implemented"}

\* C21: at top level one turn of Parse's loop skips a comment token, hands
\* an identifier token to command parsing (which returns an error of its
\* own or one entry for the tree), returns the tree when the tokens are
\* exhausted, and returns the "unexpected token" error and no tree for a
\* token of any other kind, wherever the token stands, also as the last.
C21_TopLevelDispatch ==
    [][ pc = "Parse" =>
          LET token == p_nextItem(p)
          IN  /\ token.typ = itemEOF
                    => (pc' = "returned" /\ perr' = NoErr /\ tree' = tree)
              /\ token.typ = itemComment
                    => /\ pc' = "Parse"
                       /\ perr' = NoErr
                       /\ tree' = tree
                       /\ p'.Pos = p.Pos + 1
              /\ token.typ = itemIdentifier
                    => \/ /\ pc' = "returned"
                          /\ perr'.msg \in CommandErrors
                          /\ tree' = NilTree
                       \/ /\ pc' = "Parse"
                          /\ perr' = NoErr
                          /\ Len(tree'.Start) = Len(tree.Start) + 1
              /\ token.typ \notin {itemEOF, itemComment, itemIdentifier}
                    => /\ pc' = "returned"
                       /\ perr' = Err("unexpected token", <<>>, NoItem)
                       /\ tree' = NilTree
      ]_vars

\* Parse skipped a comment, parsed a command and then met a token of
\* another kind as the last token of the array
C21_Witness ==
    /\ ParseReturned
    /\ Len(tokens) = 4
    /\ tokens[1].typ = itemComment
    /\ tokens[2].val = STOP
    /\ tokens[4].typ \in {itemString, itemStringListOpen, itemBlockClose}
    /\ p.Pos = 4
    /\ perr = Err("unexpected token", <<>>, NoItem)

----------------------------------------------------------------------------
(* Claims about errors inside strings and comments *)

\* the scanner is inside a quoted string and the next code point is r
InString(r) ==
    pc = "nextItem" /\ state = "lexQuotedStringLoop" /\ nextR(l) = r

\* in the text of a string token every backslash is followed by a quote or
\* a backslash and every CR by an LF
RECURSIVE EscapesValid(_)
EscapesValid(s) ==
    IF s = <<>> THEN TRUE
    ELSE IF s[1] = "\\"
         THEN Len(s) >= 2 /\ s[2] \in {"\"", "\\"} /\ EscapesValid(Drop(s, 2))
    ELSE IF s[1] = "\r"
         THEN Len(s) >= 2 /\ s[2] = "\n" /\ EscapesValid(Drop(s, 2))
    ELSE EscapesValid(Tail(s))

RECURSIVE HasClose(_)
HasClose(s) ==
    s # <<>> /\ (StartsWith(s, <<"*", "/">>) \/ HasClose(Tail(s)))

\* the bracket comment that starts at offset a of the script: from `/*`
\* to the first `*/` that follows
BracketCommentAt(a) ==
    <<"/", "*">> \o BracketBody(Drop(input, a + 2)) \o <<"*", "/">>

\* C23: a bracket comment extends from `/*` to the first following `*/`:
\* a `*` not followed by `/` is comment text, `**/` ends the comment at its
\* `*/`, and what follows the `*/` is scanned as further tokens.  Every
\* bracket comment token is the text up to the first `*/`; a script that
\* starts with a closed comment yields that comment as its first token,
\* and a `;` right after it as the next.
C23_CommentEndsAtFirstClose ==
    /\ \A k \in 1..Len(tokens) :
        (tokens[k].typ = itemComment /\ input[tokens[k].pos + 1] = "/")
            => tokens[k].val = BracketCommentAt(tokens[k].pos)
    /\ ( /\ pc \in {"failed", "parser"}
         /\ StartsWith(input, <<"/", "*">>)
         /\ HasClose(Drop(input, 2)) )
        => /\ tokens # <<>>
           /\ tokens[1] = Item(itemComment, 0, BracketCommentAt(0))
           /\ StartsWith(Drop(input, End(tokens[1])), <<";">>)
                => /\ Len(tokens) >= 2
                   /\ tokens[2] = Item(itemEnd, End(tokens[1]), <<";">>)

\* the comment `/***/` was scanned as one token
C23_Witness ==
    /\ pc = "parser"
    /\ tokens = <<Item(itemComment, 0, <<"/", "*", "*", "*", "/">>)>>

----------------------------------------------------------------------------
(* Claims about commas *)

\* whether the scanner, having read s from mode m, is in code, in a
\* string, in a bracket comment or in a hash comment
RECURSIVE ModeAfter(_, _)
ModeAfter(s, m) ==
    IF s = <<>> THEN m
    ELSE IF m = "code"
         THEN IF s[1] = "\"" THEN ModeAfter(Tail(s), "string")
              ELSE IF s[1] = "#" THEN ModeAfter(Tail(s), "hash")
              ELSE IF StartsWith(s, <<"/", "*">>) THEN ModeAfter(Drop(s, 2), "bracket")
              ELSE ModeAfter(Tail(s), "code")
    ELSE IF m = "string"
         THEN IF s[1] = "\\" /\ Len(s) >= 2 THEN ModeAfter(Drop(s, 2), "string")
              ELSE IF s[1] = "\"" THEN ModeAfter(Tail(s), "code")
              ELSE ModeAfter(Tail(s), "string")
    ELSE IF m = "bracket"
         THEN IF StartsWith(s, <<"*", "/">>) THEN ModeAfter(Drop(s, 2), "code")
              ELSE ModeAfter(Tail(s), "bracket")
    ELSE IF StartsWith(s, CRLF) THEN ModeAfter(Drop(s, 2), "code")
         ELSE ModeAfter(Tail(s), "hash")

\* s[i] is a comma outside strings and comments
CommaInCode(s, i) ==
    /\ s[i] = ","
    /\ ModeAfter(SubSeq(s, 1, i - 1), "code") = "code"
    /\ ModeAfter(SubSeq(s, 1, i), "code") = "code"

\* C24: a comma is never emitted as a token and is lexically equivalent to
\* a space: replacing any comma that stands outside strings and comments by
\* a space leaves the sequence of items returned (kinds, texts, positions,
\* the closing EOF or error item included) unchanged.
C24_CommaIsSpace ==
    /\ \A k \in 1..Len(tokens) :
        tokens[k].typ \notin {itemString, itemComment}
            => "," \notin Range(tokens[k].val)
    /\ pc \in {"failed", "parser"}
        => \A i \in 1..Len(input) :
            CommaInCode(input, i)
                => RunItems(lex([input EXCEPT ![i] = " "]), <<>>)
                       = Append(tokens, l.item)

\* a comma between two tokens was skipped
C24_Witness ==
    /\ pc = "parser"
    /\ Len(tokens) = 2
    /\ SubSeq(input, End(tokens[1]) + 1, tokens[2].pos) = <<",">>

----------------------------------------------------------------------------
(* Claims about the marker line of a multi-line string *)

\* t is zero or more body lines, each ended by CRLF and none of them the
\* terminator line, followed by the terminator line `.` CRLF
BodyAndEnd(t) ==
    /\ EndsWith(t, endSequence)
    /\ LET b == SubSeq(t, 1, Len(t) - Len(endSequence))
       IN  /\ b = <<>> \/ EndsWith(b, CRLF)
           /\ \A i \in 1..Len(b) : ~LoneLF(b, i) /\ ~LoneCR(b, i)
           /\ ~StartsWith(b, endSequence)
           /\ \A i \in 1..Len(b) : ~StartsWith(Drop(b, i), <<"\n">> \o endSequence)

\* s is the marker, optional spaces and tabs, a hash comment, CRLF, body
\* lines and the terminator line
IsCommentedMultiline(s) ==
    /\ StartsWith(s, textMarker)
    /\ \E i \in (Len(textMarker) + 1)..Len(s) : \E j \in (i + 1)..(Len(s) - 1) :
        /\ \A k \in (Len(textMarker) + 1)..(i - 1) : s[k] \in {" ", "\t"}
        /\ s[i] = "#"
        /\ \A k \in (i + 1)..(j - 1) : s[k] \notin {"\r", "\n"}
        /\ SubSeq(s, j, j + 1) = CRLF
        /\ BodyAndEnd(Drop(s, j + 1))

\* C25: a multi-line string whose marker is followed on the same line by
\* optional spaces and tabs and a hash comment before the CRLF is scanned
\* to completion as one string token: the scan of such a script ends
\* without error with exactly one token, a string that starts at the
\* marker, and lexMultiline, run from the marker, returns.
C25_MarkerLineCommentScanned ==
    (pc \in {"failed", "parser"} /\ IsCommentedMultiline(input))
        => /\ pc = "parser"
           /\ Len(tokens) = 1
           /\ tokens[1].typ = itemString
           /\ tokens[1].pos = 0
           /\ RunStates("lexMultiline", lex(input)).state = "nil"

----------------------------------------------------------------------------
(* Claims about the scanner's error item *)

\* C26: the position carried by a scanner error item is the byte offset of
\* the offending code point, also inside a string, a comment or another
\* token that began earlier: when a turn of the scanner returns an error
\* item, its position is that of a code point the turn read (the one at
\* the cursor or, when the turn read two, the one after it).
C26_ErrorAtOffendingRune ==
    [][ (pc = "nextItem" /\ state' = "nil" /\ l'.item.typ = itemError
            /\ l.item.typ # itemError)
            => l'.item.pos \in {l.pos, l.pos + 1}
      ]_vars

\* C27: a scan yields at most one error item and the error is terminal:
\* every nextItem call made after the call that returned the error item
\* returns an EOF item, never a token and never a second error, and no
\* error item stands among the tokens scanned before it.
C27_ErrorIsTerminal ==
    /\ pc = "afterError" => (state = "nil" /\ l.item.typ = itemEOF)
    /\ \A k \in 1..Len(tokens) : tokens[k].typ # itemError

\* nextItem was called again after an error that left a `;` unscanned
C27_Witness ==
    /\ pc = "afterError"
    /\ Len(tokens) = 1
    /\ nerr.text = <<"dangling line feed">>
    /\ input[Len(input)] = ";"

----------------------------------------------------------------------------
(* Claims about the Parser's cursor *)

\* C28: Parser.peek returns the token the next call of Parser.next will
\* return and leaves the cursor unchanged, at every cursor position, also
\* where exactly one token remains: stated where Parse calls it, at the
\* top of its loop.
C28_PeekLeavesCursor ==
    pc = "Parse"
        => /\ p_peek(p).Pos = p.Pos
           /\ p_peek(p).tokens = p.tokens
           /\ p_nextItem(p_peek(p)) = p_nextItem(p)

\* the Parser as parseCommand has it when it calls accept(itemEnd): behind
\* the stop, keep or discard identifier it has just read
AtAccept == p_next(p_peek(p))

\* Parse is about to call parseCommand, which will read a stop, keep or
\* discard identifier and call accept(itemEnd)
AcceptCalled ==
    /\ pc = "Parse"
    /\ p_nextItem(p).typ = itemIdentifier
    /\ p_nextItem(p_peek(p)).typ = itemIdentifier
    /\ p_nextItem(p_peek(p)).val \in CommandWords

\* C29: Parser.accept(k) returns true and advances the cursor by exactly
\* one when the token at the cursor has kind k, and otherwise returns false
\* and leaves the cursor unchanged, also on the last token and at the end
\* of the tokens: stated where parseCommand calls it, with k the kind of
\* `;`.
C29_AcceptMovesOnlyOnMatch ==
    AcceptCalled
        => LET q == AtAccept
           IN  IF ~isAtEOF(q) /\ q.tokens[q.Pos + 1].typ = itemEnd
               THEN /\ p_acceptOk(q, itemEnd)
                    /\ p_accept(q, itemEnd).Pos = q.Pos + 1
               ELSE /\ ~p_acceptOk(q, itemEnd)
                    /\ p_accept(q, itemEnd).Pos = q.Pos

IsEnd(tk) == tk.typ = itemEnd

\* the kind of node a command identifier stands for
NodeTypeOf(word) ==
    IF word = STOP THEN "nodeControlStop"
    ELSE IF word = KEEP THEN "nodeKeep"
    ELSE IF word = DISCARD THEN "nodeDiscard"
    ELSE "none"

\* C30: after a successful Parse, Start holds exactly one entry per
\* top-level command of the script, in source order, every entry a Stop,
\* Keep or Discard node and none nil: one entry per `;` token, the i-th of
\* the kind of the i-th identifier token.
C30_OneNodePerCommand ==
    (ParseReturned /\ perr = NoErr)
        => /\ Len(tree.Start) = Len(SelectSeq(tokens, IsEnd))
           /\ Len(tree.Start) = Len(SelectSeq(tokens, IsIdentifier))
           /\ \A i \in 1..Len(tree.Start) :
                /\ tree.Start[i] # NilNode
                /\ tree.Start[i].type
                       = NodeTypeOf(SelectSeq(tokens, IsIdentifier)[i].val)

----------------------------------------------------------------------------
(* Claims about the scanner after the end of the input *)

\* C31: end of input is absorbing for the scanner: once nextItem has
\* returned an EOF item, every later nextItem call on the same lexer
\* returns an EOF item too, and no token is emitted after EOF.
C31_EOFIsAbsorbing ==
    pc = "afterEOF" => (state = "nil" /\ l.item.typ = itemEOF)

----------------------------------------------------------------------------
(* Claims about the range of the cursors *)

\* C32: in every reachable state of the Parser 0 <= cursor <= len(tokens),
\* under any sequence of next, peek, backup, advance and accept calls;
\* next reads tokens[cursor] only where cursor < len(tokens), and at the
\* end of the tokens it returns an EOF item and does not move the cursor.
C32_CursorInRange ==
    ~p.nil
        => /\ 0 <= p.Pos
           /\ p.Pos <= Len(p.tokens)
           /\ ~isAtEOF(p) => p.Pos + 1 \in DOMAIN p.tokens
           /\ isAtEOF(p) => /\ p_nextItem(p) = Item(itemEOF, p.Pos, <<"EOF">>)
                            /\ p_next(p) = p

\* backup has been called with the cursor at the end of three tokens, where
\* the next call of next returns EOF
C32_Witness ==
    /\ pc = "backup"
    /\ Len(p.tokens) = 3
    /\ p.Pos = 3

\* C33: in every reachable state of the lexer 0 <= start <= pos <=
\* len(input), so that the slice input[start:pos] thisItem takes is always
\* in range, under any sequence of nextItem calls on any input, the calls
\* made after an EOF item was returned included.
C33_StartPosInRange ==
    /\ 0 <= l.start
    /\ l.start <= l.pos
    /\ l.pos <= Len(l.input)
    /\ state # "panic"

====
